---- MODULE Spec2Model ----
\* The game loop of js/engine.js: init, main (one tick per animation frame),
\* update/updateEntities and render, together with the host services they use
\* (Date.now, requestAnimationFrame, the 2D canvas context) and the
\* collaborators they call (game, the entities, Resources).
EXTENDS Integers, Sequences, FiniteSets, TLC

\* ---------------------------------------------------------------- bounds

\* Date.now() returns a sample in 0..MaxTime (milliseconds).
MaxTime == 1
\* main runs at most MaxTicks times.
MaxTicks == 2
\* game.levels has NumLevels levels; level l holds l enemies.
NumLevels == 3
\* game.lives is MaxLives throughout.
MaxLives == 3

\* ------------------------------------------------------- program constants

CanvasWidth == 505
CanvasHeight == 606
MsPerSecond == 1000
\* lastTime before init assigns it (declared without a value).
Undefined == -1

\* ------------------------------------------------------------ collaborators

\* The values game.state takes; "paused" stands for any value render's switch
\* has no case for.
States == {"start", "game", "win", "over", "paused"}
Lives == {MaxLives}
Times == 0..MaxTime

\* The sprites of the selectable characters.
CharSprites == << "images/char-cat-girl.png", "images/char-horn-girl.png" >>

\* game.selector.characters: entries with a sprite identifier.
Characters == [i \in 1..Len(CharSprites) |-> [sprite |-> CharSprites[i]]]

\* game.levels: level l has the ordered enemy collection <<l,1>>, ..., <<l,l>>.
Levels == [l \in 0..(NumLevels - 1) |-> [enemies |-> [i \in 1..l |-> <<l, i>>]]]

\* The contents game can hold: state, lvl, lives and the player's sprite.
GameStates ==
  [state : States, lvl : 0..(NumLevels - 1), lives : Lives,
   sprite : {CharSprites[i] : i \in 1..Len(CharSprites)}]

\* game.resetGame(): the starting configuration.
resetGame ==
  [state |-> "start", lvl |-> 0, lives |-> MaxLives, sprite |-> CharSprites[1]]

\* Entity state: how many updates each enemy and the player have completed.
NoUpdates ==
  [enemies |-> [l \in 0..(NumLevels - 1) |-> [i \in 1..l |-> 0]], player |-> 0]

\* enemy.update(dt) and player.update() as seen from the loop.
EnemyUpdate(e, id) == [e EXCEPT !.enemies[id[1]][id[2]] = @ + 1]
PlayerUpdate(e) == [e EXCEPT !.player = @ + 1]

\* What player.update() may do to game: nothing, or end the round.
PlayerEffects == {"none", "win", "over"}
PlayerEffect(g, eff) == IF eff = "none" THEN g ELSE [g EXCEPT !.state = eff]

\* ------------------------------------------------------------- JS values

JsNum(n) == [t |-> "number", v |-> n]
JsStr(s) == [t |-> "string", v |-> s]

Digit(d) ==
  CASE d = 0 -> "0" [] d = 1 -> "1" [] d = 2 -> "2" [] d = 3 -> "3" [] d = 4 -> "4"
    [] d = 5 -> "5" [] d = 6 -> "6" [] d = 7 -> "7" [] d = 8 -> "8" [] d = 9 -> "9"

RECURSIVE NumToStr(_)
NumToStr(n) == IF n < 10 THEN Digit(n) ELSE NumToStr(n \div 10) \o Digit(n % 10)

JsToString(a) == IF a.t = "string" THEN a.v ELSE NumToStr(a.v)

\* The binary + of JavaScript: numeric addition of two numbers, string
\* concatenation as soon as one operand is a string.  a + b + c is (a + b) + c.
JsAdd(a, b) ==
  IF a.t = "number" /\ b.t = "number"
  THEN JsNum(a.v + b.v)
  ELSE JsStr(JsToString(a) \o JsToString(b))

\* ------------------------------------------------------------------ update

Call(fn, who, args) == [fn |-> fn, who |-> who, args |-> args]

\* dt = (now - lastTime) / 1000.0, kept as the exact fraction num/den.
Dt(now, last) == [num |-> now - last, den |-> MsPerSecond]

\* enemies.forEach(function(enemy) { enemy.update(dt); }) from index i on,
\* with the entities in state e: the calls made, the entities' state after
\* them, and whether a call threw.  The failAt-th entity call of this update
\* throws (0: none does).
RECURSIVE forEachUpdate(_, _, _, _, _)
forEachUpdate(enemies, i, dt, failAt, e) ==
  IF i > Len(enemies)
  THEN [calls |-> <<>>, ent |-> e, threw |-> FALSE]
  ELSE IF failAt = i
  THEN [calls |-> <<Call("enemy.update", enemies[i], <<dt>>)>>, ent |-> e,
        threw |-> TRUE]
  ELSE [forEachUpdate(enemies, i + 1, dt, failAt, EnemyUpdate(e, enemies[i]))
          EXCEPT !.calls = <<Call("enemy.update", enemies[i], <<dt>>)>> \o @]

\* updateEntities with the loop starting at the second enemy.
updateEntities_SkipsFirstEnemy(g, e, dt, failAt, eff) ==
  IF g.state = "game"
  THEN LET enemies == Levels[g.lvl].enemies
           a == forEachUpdate(enemies, 2, dt, failAt, e)
           pcall == Call("player.update", <<>>, <<>>)
       IN  IF a.threw
           THEN [calls |-> a.calls, ent |-> a.ent, threw |-> TRUE, game |-> g]
           ELSE IF failAt = Len(enemies) + 1
           THEN [calls |-> Append(a.calls, pcall), ent |-> a.ent, threw |-> TRUE,
                 game |-> g]
           ELSE [calls |-> Append(a.calls, pcall), ent |-> PlayerUpdate(a.ent),
                 threw |-> FALSE, game |-> PlayerEffect(g, eff)]
  ELSE [calls |-> <<>>, ent |-> e, threw |-> FALSE, game |-> g]

\* updateEntities without the test of game.state.
updateEntities_IgnoresState(g, e, dt, failAt, eff) ==
  LET enemies == Levels[g.lvl].enemies
      a == forEachUpdate(enemies, 1, dt, failAt, e)
      pcall == Call("player.update", <<>>, <<>>)
  IN  IF a.threw
      THEN [calls |-> a.calls, ent |-> a.ent, threw |-> TRUE, game |-> g]
      ELSE IF failAt = Len(enemies) + 1
      THEN [calls |-> Append(a.calls, pcall), ent |-> a.ent, threw |-> TRUE,
            game |-> g]
      ELSE [calls |-> Append(a.calls, pcall), ent |-> PlayerUpdate(a.ent),
            threw |-> FALSE, game |-> PlayerEffect(g, eff)]

\* The calls update made, the entities and game after them, and whether an
\* entity's update threw.
updateEntities(g, e, dt, failAt, eff) ==
  IF g.state = "game"
  THEN LET enemies == Levels[g.lvl].enemies
           a == forEachUpdate(enemies, 1, dt, failAt, e)
           pcall == Call("player.update", <<>>, <<>>)
       IN  IF a.threw
           THEN [calls |-> a.calls, ent |-> a.ent, threw |-> TRUE, game |-> g]
           ELSE IF failAt = Len(enemies) + 1
           THEN [calls |-> Append(a.calls, pcall), ent |-> a.ent, threw |-> TRUE,
                 game |-> g]
           ELSE [calls |-> Append(a.calls, pcall), ent |-> PlayerUpdate(a.ent),
                 threw |-> FALSE, game |-> PlayerEffect(g, eff)]
  ELSE [calls |-> <<>>, ent |-> e, threw |-> FALSE, game |-> g]

update(g, e, dt, failAt, eff) == updateEntities(g, e, dt, failAt, eff)

\* ------------------------------------------------------------------ render

\* The element of a one-element set; { F(x) : x \in {e} } evaluates e once.
Only(S) == CHOOSE x \in S : TRUE

\* Resources.get(identifier): the drawable handle of a loaded image.
ResourcesGet(id) == [img |-> id]

\* One statement of render: a canvas call, a property assignment, or a call
\* of an entity's render method.
St(s, a) == [s |-> s, a |-> a]

\* The context of a fresh canvas.
NewContext ==
  [path |-> <<>>, fillStyle |-> "#000000", font |-> "10px sans-serif",
   textAlign |-> "start"]

SetProp(c, p, v) ==
  CASE p = "fillStyle" -> [c EXCEPT !.fillStyle = v]
    [] p = "font" -> [c EXCEPT !.font = v]
    [] p = "textAlign" -> [c EXCEPT !.textAlign = v]

\* A drawing operation as the surface sees it: what is painted, with the
\* context properties it is painted with.
Op(op, args, c) ==
  [op |-> op, args |-> args,
   with |-> CASE op = "fill" -> <<c.path, c.fillStyle>>
              [] op = "fillText" -> <<c.font, c.textAlign, c.fillStyle>>
              [] OTHER -> <<>>]

\* Puts a drawing operation in front of those of the rest of the run.
Emit(op, rest) == [rest EXCEPT !.ops = <<op>> \o @]

\* Runs stmts[i..] from the context c: the operations drawn, the context left,
\* and whether an entity's render threw.  k entity render calls were made so
\* far; the failAt-th one throws (0: none does) and ends the run.
RECURSIVE Exec(_, _, _, _, _)
Exec(stmts, i, k, failAt, c) ==
  IF i > Len(stmts)
  THEN [ops |-> <<>>, ctx |-> c, threw |-> FALSE]
  ELSE CASE stmts[i].s = "beginPath" ->
              Exec(stmts, i + 1, k, failAt, [c EXCEPT !.path = <<>>])
         [] stmts[i].s = "rect" ->
              Exec(stmts, i + 1, k, failAt, [c EXCEPT !.path = Append(@, stmts[i].a)])
         [] stmts[i].s = "set" ->
              Exec(stmts, i + 1, k, failAt, SetProp(c, stmts[i].a[1], stmts[i].a[2]))
         [] stmts[i].s \in {"fill", "fillText", "drawImage"} ->
              Emit(Op(stmts[i].s, stmts[i].a, c), Exec(stmts, i + 1, k, failAt, c))
         [] stmts[i].s = "call" ->
              IF failAt = k + 1
              THEN [ops |-> <<Op(stmts[i].a[1], stmts[i].a[2], c)>>, ctx |-> c,
                    threw |-> TRUE]
              ELSE Emit(Op(stmts[i].a[1], stmts[i].a[2], c),
                        Exec(stmts, i + 1, k + 1, failAt, c))

\* Lines 110-114: draw the background rectangle.
Background ==
  << St("beginPath", <<>>),
     St("rect", <<0, 0, 505, 606>>),
     St("set", <<"fillStyle", "white">>),
     St("fill", <<>>) >>

\* case "game", lines 117-138.
GameScreen(g) ==
  LET enemies == Levels[g.lvl].enemies
  IN  << St("call", <<"level.render", <<g.lvl>> >>) >>
      \o [i \in 1..Len(enemies) |-> St("call", <<"enemy.render", enemies[i]>>)]
      \o << St("call", <<"player.render", <<>> >>),
            St("set", <<"font", "bold 20pt Calibri">>),
            St("set", <<"textAlign", "center">>),
            St("set", <<"fillStyle", "black">>),
            St("fillText",
               <<JsToString(JsAdd(JsStr("Lives: "), JsNum(g.lives))), 125, 37>>),
            St("fillText",
               <<JsToString(JsAdd(JsAdd(JsStr("Level: "), JsNum(g.lvl)), JsNum(1))),
                 375, 37>>) >>

\* case "start", lines 140-159.
StartScreen(g) ==
  LET chr == Characters
  IN  << St("call", <<"selector.render", <<>> >>) >>
      \o [j \in 1..Len(chr) |->
            St("drawImage",
               <<ResourcesGet(chr[j].sprite), (j - 1) * 101 + 50, 3 * 83 - 20>>)]
      \o << St("set", <<"font", "bold 20pt Calibri">>),
            St("set", <<"textAlign", "center">>),
            St("set", <<"fillStyle", "black">>),
            St("fillText", <<"Select Your Heroine!", 252, 100>>),
            St("set", <<"font", "bold 14pt Calibri">>),
            St("fillText", <<"Press Space or Enter to Begin", 252, 160>>) >>

\* The win screen with the three sprites in the slots 151, 202, 253.
WinScreen_EvenSlots(g) ==
  << St("drawImage", <<ResourcesGet(g.sprite), 101 + 50, 3 * 83 - 20>>),
     St("drawImage", <<ResourcesGet("images/char-boy.png"), 152 + 50, 3 * 83 - 20>>),
     St("drawImage", <<ResourcesGet("images/Heart.png"), 203 + 50, 3 * 83 - 20>>),
     St("set", <<"font", "bold 20pt Calibri">>),
     St("set", <<"textAlign", "center">>),
     St("set", <<"fillStyle", "black">>),
     St("fillText", <<"You Win!", 252, 100>>),
     St("set", <<"font", "bold 14pt Calibri">>),
     St("fillText", <<"Press Space or Enter to Restart", 252, 160>>) >>

\* case "win", lines 161-172.
WinScreen(g) ==
  << St("drawImage", <<ResourcesGet(g.sprite), 101 + 50, 3 * 83 - 20>>),
     St("drawImage", <<ResourcesGet("images/char-boy.png"), 202 + 50, 3 * 83 - 20>>),
     St("drawImage", <<ResourcesGet("images/Heart.png"), 151 + 50, 3 * 83 - 20>>),
     St("set", <<"font", "bold 20pt Calibri">>),
     St("set", <<"textAlign", "center">>),
     St("set", <<"fillStyle", "black">>),
     St("fillText", <<"You Win!", 252, 100>>),
     St("set", <<"font", "bold 14pt Calibri">>),
     St("fillText", <<"Press Space or Enter to Restart", 252, 160>>) >>

\* case "over", lines 174-183.
OverScreen(g) ==
  << St("set", <<"font", "bold 20pt Calibri">>),
     St("set", <<"textAlign", "center">>),
     St("set", <<"fillStyle", "black">>),
     St("fillText", <<"Game Over!", 252, 100>>),
     St("set", <<"font", "bold 14pt Calibri">>),
     St("fillText", <<"Press Space or Enter to Restart", 252, 160>>) >>

\* switch (game.state): no default case.
Dispatch(g) ==
  CASE g.state = "game" -> GameScreen(g)
    [] g.state = "start" -> StartScreen(g)
    [] g.state = "win" -> WinScreen(g)
    [] g.state = "over" -> OverScreen(g)
    [] OTHER -> <<>>

\* render with the background drawn after the screen instead of before it.
render_BackgroundLast(g, c, failAt) ==
  Only({Exec(stmts, 1, 0, failAt, c) : stmts \in {Dispatch(g) \o Background}})

render(g, c, failAt) ==
  Only({Exec(stmts, 1, 0, failAt, c) : stmts \in {Background \o Dispatch(g)}})

\* -------------------------------------------------------------------- state

VARIABLES
  world,      \* the program's state, see Fields
  started,    \* Resources has called init
  delivered,  \* animation-frame callbacks the host has run
  found,      \* what game held when the latest tick began
  fault,      \* the latest tick's sample and which entity call threw in it
  initTime,   \* the Date.now() sample init took
  prevNow,    \* the sample the previous call of main took (init's, for the first)
  dtSum,      \* sum of the dt numerators of the ticks that completed
  wentBack    \* some Date.now() sample was smaller than the one before it

vars ==
  <<world, started, delivered, found, fault, initTime, prevNow, dtSum, wentBack>>

\* world.game      the global game object: state, lvl, lives, player sprite
\* world.ent       the entities' own state
\* world.ctx       the canvas 2D context (it outlives a frame)
\* world.lastTime  the loop's clock
\* world.pending   callbacks registered with requestAnimationFrame, not yet run
\* world.display   CSS display of #game-area
\* world.pairs     Update+Render pairs that have executed (both returned)
\* world.frame     what the latest call of main did
game == world.game
ent == world.ent
lastTime == world.lastTime
pending == world.pending
pairs == world.pairs
frame == world.frame

NoFrame ==
  [n |-> 0, now |-> 0, dt |-> Dt(0, 0), gameIn |-> resetGame, upd |-> <<>>,
   draws |-> <<>>, trace |-> <<>>, threw |-> "none", raf |-> 0]

\* Which entity call of update may throw when game holds g: the k-th of the
\* calls update makes (0: none).
UpdateFails(g) ==
  IF g.state = "game" THEN 0..(Len(Levels[g.lvl].enemies) + 1) ELSE {0}

\* What player.update() may do, when update reaches it.
EffectsAt(g, uFail) ==
  IF g.state = "game" /\ uFail = 0 THEN PlayerEffects ELSE {"none"}

\* Which entity call of render may throw when game holds g (0: none); render
\* does not run when update threw.
RenderFails(g, uFail) ==
  IF uFail # 0 THEN {0}
  ELSE CASE g.state = "game" -> 0..(Len(Levels[g.lvl].enemies) + 2)
         [] g.state = "start" -> 0..1
         [] OTHER -> {0}

\* --------------------------------------------------------------- main, init

\* main with render() called before update(dt).
main_RenderFirst(w, now, uFail, eff, rFail) ==
  Only({
    LET f0 == [n |-> w.frame.n + 1, now |-> now, dt |-> Dt(now, w.lastTime),
               gameIn |-> w.game, upd |-> u.calls, draws |-> <<>>,
               trace |-> <<"render:enter", "render:return", "update:enter">>, threw |-> "update", raf |-> 0]
        w1 == [w EXCEPT !.game = u.game, !.ent = u.ent, !.frame = f0]
    IN  IF u.threw
        THEN w1
        ELSE Only({
          LET f1 == [f0 EXCEPT !.draws = r.ops, !.threw = "render",
                               !.trace = @ \o <<"update:return">>]
              w2 == [w1 EXCEPT !.ctx = r.ctx, !.frame = f1]
          IN  IF r.threw
              THEN w2
              ELSE [w2 EXCEPT
                      !.pairs = @ + 1,
                      !.lastTime = now,
                      !.pending = @ + 1,
                      !.frame = [f1 EXCEPT !.threw = "none", !.raf = 1,
                                           !.trace = @ \o <<"lastTime = now", "requestAnimationFrame">>]]
          : r \in {render(w.game, w.ctx, rFail)} })
    : u \in {update(w.game, w.ent, Dt(now, w.lastTime), uFail, eff)} })

\* main with requestAnimationFrame(main) as its first statement.
main_RequestsFrameFirst(w, now, uFail, eff, rFail) ==
  Only({
    LET f0 == [n |-> w.frame.n + 1, now |-> now, dt |-> Dt(now, w.lastTime),
               gameIn |-> w.game, upd |-> u.calls, draws |-> <<>>,
               trace |-> <<"requestAnimationFrame", "update:enter">>, threw |-> "update", raf |-> 1]
        w1 == [w EXCEPT !.game = u.game, !.ent = u.ent, !.frame = f0,
                      !.pending = @ + 1]
    IN  IF u.threw
        THEN w1
        ELSE Only({
          LET f1 == [f0 EXCEPT !.draws = r.ops, !.threw = "render",
                               !.trace = @ \o <<"update:return", "render:enter">>]
              w2 == [w1 EXCEPT !.ctx = r.ctx, !.frame = f1]
          IN  IF r.threw
              THEN w2
              ELSE [w2 EXCEPT
                      !.pairs = @ + 1,
                      !.lastTime = now,
                      !.frame = [f1 EXCEPT !.threw = "none", !.raf = 1,
                                           !.trace = @ \o <<"render:return", "lastTime = now">>]]
          : r \in {render(u.game, w.ctx, rFail)} })
    : u \in {update(w.game, w.ent, Dt(now, w.lastTime), uFail, eff)} })

\* main without the closing requestAnimationFrame(main).
main_NeverRequestsFrame(w, now, uFail, eff, rFail) ==
  Only({
    LET f0 == [n |-> w.frame.n + 1, now |-> now, dt |-> Dt(now, w.lastTime),
               gameIn |-> w.game, upd |-> u.calls, draws |-> <<>>,
               trace |-> <<"update:enter">>, threw |-> "update", raf |-> 0]
        w1 == [w EXCEPT !.game = u.game, !.ent = u.ent, !.frame = f0]
    IN  IF u.threw
        THEN w1
        ELSE Only({
          LET f1 == [f0 EXCEPT !.draws = r.ops, !.threw = "render",
                               !.trace = @ \o <<"update:return", "render:enter">>]
              w2 == [w1 EXCEPT !.ctx = r.ctx, !.frame = f1]
          IN  IF r.threw
              THEN w2
              ELSE [w2 EXCEPT
                      !.pairs = @ + 1,
                      !.lastTime = now,
                      !.frame = [f1 EXCEPT !.threw = "none", !.raf = 0,
                                           !.trace = @ \o <<"render:return", "lastTime = now">>]]
          : r \in {render(u.game, w.ctx, rFail)} })
    : u \in {update(w.game, w.ent, Dt(now, w.lastTime), uFail, eff)} })

\* main without the assignment lastTime = now.
main_KeepsLastTime(w, now, uFail, eff, rFail) ==
  Only({
    LET f0 == [n |-> w.frame.n + 1, now |-> now, dt |-> Dt(now, w.lastTime),
               gameIn |-> w.game, upd |-> u.calls, draws |-> <<>>,
               trace |-> <<"update:enter">>, threw |-> "update", raf |-> 0]
        w1 == [w EXCEPT !.game = u.game, !.ent = u.ent, !.frame = f0]
    IN  IF u.threw
        THEN w1
        ELSE Only({
          LET f1 == [f0 EXCEPT !.draws = r.ops, !.threw = "render",
                               !.trace = @ \o <<"update:return", "render:enter">>]
              w2 == [w1 EXCEPT !.ctx = r.ctx, !.frame = f1]
          IN  IF r.threw
              THEN w2
              ELSE [w2 EXCEPT
                      !.pairs = @ + 1,
                      !.pending = @ + 1,
                      !.frame = [f1 EXCEPT !.threw = "none", !.raf = 1,
                                           !.trace = @ \o <<"render:return", "requestAnimationFrame">>]]
          : r \in {render(u.game, w.ctx, rFail)} })
    : u \in {update(w.game, w.ent, Dt(now, w.lastTime), uFail, eff)} })

\* One tick: u is what update(dt) did, r what render() did; an exception of
\* either ends the tick where it is thrown.
main(w, now, uFail, eff, rFail) ==
  Only({
    LET f0 == [n |-> w.frame.n + 1, now |-> now, dt |-> Dt(now, w.lastTime),
               gameIn |-> w.game, upd |-> u.calls, draws |-> <<>>,
               trace |-> <<"update:enter">>, threw |-> "update", raf |-> 0]
        w1 == [w EXCEPT !.game = u.game, !.ent = u.ent, !.frame = f0]
    IN  IF u.threw
        THEN w1
        ELSE Only({
          LET f1 == [f0 EXCEPT !.draws = r.ops, !.threw = "render",
                               !.trace = @ \o <<"update:return", "render:enter">>]
              w2 == [w1 EXCEPT !.ctx = r.ctx, !.frame = f1]
          IN  IF r.threw
              THEN w2
              ELSE [w2 EXCEPT
                      !.pairs = @ + 1,
                      !.lastTime = now,
                      !.pending = @ + 1,
                      !.frame = [f1 EXCEPT !.threw = "none", !.raf = 1,
                                           !.trace = @ \o <<"render:return",
                                                            "lastTime = now",
                                                            "requestAnimationFrame">>]]
          : r \in {render(u.game, w.ctx, rFail)} })
    : u \in {update(w.game, w.ent, Dt(now, w.lastTime), uFail, eff)} })

\* init with a second call of main after the first.
init_TicksTwice(w, t0, now, uFail, eff, rFail) ==
  LET w1 == main([w EXCEPT !.lastTime = t0, !.display = "block", !.game = resetGame],
                 now, uFail, eff, rFail)
  IN  IF w1.frame.threw # "none" THEN w1 ELSE main(w1, now, uFail, eff, rFail)

init(w, t0, now, uFail, eff, rFail) ==
  main([w EXCEPT !.lastTime = t0, !.display = "block", !.game = resetGame],
       now, uFail, eff, rFail)

\* ------------------------------------------------------------------ actions

Init ==
  /\ world = [game |-> resetGame, ent |-> NoUpdates, ctx |-> NewContext,
              lastTime |-> Undefined, pending |-> 0, display |-> "none",
              pairs |-> 0, frame |-> NoFrame]
  /\ started = FALSE
  /\ delivered = 0
  /\ found = resetGame
  /\ fault = <<0, 0, "none", 0>>
  /\ initTime = 0
  /\ prevNow = 0
  /\ dtSum = 0
  /\ wentBack = FALSE

\* The dt numerator of the latest tick counts once the tick has completed.
Completed(f) == IF f.threw = "none" THEN f.dt.num ELSE 0

\* Resources.onReady(init): all images are loaded and Resources calls init, once.
OnReady ==
  /\ ~started
  /\ started' = TRUE
  /\ delivered' = delivered
  /\ found' = resetGame
  /\ \E t0 \in Times :
       /\ initTime' = t0
       /\ prevNow' = t0
       /\ \E now \in Times :
          \E uFail \in UpdateFails(resetGame) :
          \E eff \in EffectsAt(resetGame, uFail) :
          \E rFail \in RenderFails(PlayerEffect(resetGame, eff), uFail) :
            /\ fault' = <<now, uFail, eff, rFail>>
            /\ wentBack' = (now < t0)
            /\ world' = init(world, t0, now, uFail, eff, rFail)
  /\ dtSum' = dtSum + Completed(world'.frame)

\* The host runs the registered callback for the next animation frame.  Since
\* the last frame the input handlers may have left any contents g in game.
Frame ==
  /\ started
  /\ pending > 0
  /\ frame.n < MaxTicks
  /\ delivered' = delivered + 1
  /\ prevNow' = frame.now
  /\ UNCHANGED <<started, initTime>>
  /\ \E g \in GameStates :
       /\ found' = g
       /\ \E now \in Times :
          \E uFail \in UpdateFails(g) :
          \E eff \in EffectsAt(g, uFail) :
          \E rFail \in RenderFails(PlayerEffect(g, eff), uFail) :
            /\ fault' = <<now, uFail, eff, rFail>>
            /\ wentBack' = (wentBack \/ now < frame.now)
            /\ world' = main([world EXCEPT !.pending = @ - 1, !.game = g],
                             now, uFail, eff, rFail)
  /\ dtSum' = dtSum + Completed(world'.frame)

Next == OnReady \/ Frame

Spec == Init /\ [][Next]_vars

\* The host keeps delivering animation frames.
FairSpec == Spec /\ WF_vars(Frame)

\* ------------------------------------------------------------- properties

\* A tick has run and its update returned, so its render was entered.
Rendered == frame.n > 0 /\ frame.threw # "update"
\* The latest tick ran to its end.
TickCompleted == frame.n > 0 /\ frame.threw = "none"

IsPrefix(s, t) == Len(s) <= Len(t) /\ \A i \in 1..Len(s) : s[i] = t[i]
Images(draws) == SelectSeq(draws, LAMBDA d : d.op = "drawImage")
Texts(draws) ==
  {draws[i].args[1] : i \in {j \in 1..Len(draws) : draws[j].op = "fillText"}}
WholeSurface == <<0, 0, CanvasWidth, CanvasHeight>>

\* C1: in state "game" one Update(dt) calls update(dt) on the enemies of the
\* current level in collection order, each once and with the dt Update got,
\* and after the last of them calls the player's update once.  An Update that
\* an entity's exception cuts short has made a prefix of exactly these calls.
C1_UpdateCallsEnemiesThenPlayer ==
  (frame.n > 0 /\ frame.gameIn.state = "game") =>
    LET en == Levels[frame.gameIn.lvl].enemies
        calls == frame.upd
    IN  /\ Len(calls) <= Len(en) + 1
        /\ \A i \in 1..Len(calls) :
             IF i <= Len(en)
             THEN /\ calls[i].fn = "enemy.update"
                  /\ calls[i].who = en[i]
                  /\ calls[i].args = <<frame.dt>>
             ELSE /\ calls[i].fn = "player.update"
                  /\ calls[i].args = <<>>
        /\ (frame.threw # "update" => Len(calls) = Len(en) + 1)

C1_Witness ==
  /\ frame.n > 0
  /\ frame.gameIn.state = "game"
  /\ Len(Levels[frame.gameIn.lvl].enemies) = 2
  /\ frame.threw = "none"
  /\ Len(frame.upd) = 3

\* C2: a tick whose Update finds game.state other than "game" makes no enemy
\* and no player update call and leaves the entities' state and game as they
\* were, whatever dt is.
C2_UpdateIsNoOpOutsideGame ==
  [][(world'.frame.n # world.frame.n /\ world'.frame.gameIn.state # "game") =>
       /\ world'.frame.upd = <<>>
       /\ world'.frame.threw # "update"
       /\ world'.ent = world.ent
       /\ world'.game = world'.frame.gameIn]_vars

C2_Witness ==
  /\ frame.n = 2
  /\ frame.gameIn.state = "paused"
  /\ frame.dt.num > 0
  /\ frame.upd = <<>>

MainOrder ==
  << "update:enter", "update:return", "render:enter", "render:return",
     "lastTime = now", "requestAnimationFrame" >>

\* C3: in every tick render is entered only after update returned, and the next
\* frame is requested as the last step, after update and render returned: a
\* callback is pending only when the latest tick ran to its end.  Render draws
\* the game as update left it.
C3_UpdateThenRenderThenRequest ==
  frame.n > 0 =>
    /\ IsPrefix(frame.trace, MainOrder)
    /\ (frame.raf > 0 \/ pending > 0 => frame.trace = MainOrder)
    /\ (TickCompleted /\ game.state = "win" => "You Win!" \in Texts(frame.draws))

C3_Witness ==
  /\ frame.n = 2
  /\ frame.trace = MainOrder
  /\ frame.gameIn.state = "game"
  /\ game.state = "win"

\* C4: a tick in which update or render throws registers no callback, and
\* from then on nothing of the program runs any more.
C4_ThrowStopsTheLoop ==
  /\ [](frame.threw # "none" => pending = 0 /\ frame.raf = 0)
  /\ [][world.frame.threw # "none" => world' = world]_vars

C4_Witness ==
  /\ frame.n = 2
  /\ frame.threw = "render"
  /\ pending = 0

\* C5: in state "game" render draws the texts "Lives: <lives>" and
\* "Level: <lvl + 1>".
C5_LevelShownOneBased ==
  (TickCompleted /\ game.state = "game") =>
    /\ ("Lives: " \o NumToStr(game.lives)) \in Texts(frame.draws)
    /\ ("Level: " \o NumToStr(game.lvl + 1)) \in Texts(frame.draws)

\* C6 as stated: in state "win" render draws exactly 3 sprites, at the
\* horizontal offsets 151, 202 and 253 and the vertical offset 3*83-20.
C6_WinSpritesAt151_202_253 ==
  (TickCompleted /\ game.state = "win") =>
    LET imgs == Images(frame.draws)
    IN  /\ Len(imgs) = 3
        /\ {imgs[i].args[2] : i \in 1..Len(imgs)} = {151, 202, 253}
        /\ \A i \in 1..Len(imgs) : imgs[i].args[3] = 3 * 83 - 20

\* C6 amended: in state "win" render draws exactly 3 sprites: the player's
\* sprite at 151, char-boy at 252 and the heart at 201, in this order of
\* calls, all at the vertical offset 229.
C6_WinSpritesAt151_252_201 ==
  (TickCompleted /\ game.state = "win") =>
    LET imgs == Images(frame.draws)
    IN  /\ Len(imgs) = 3
        /\ <<imgs[1].args[2], imgs[2].args[2], imgs[3].args[2]>> = <<151, 252, 201>>
        /\ \A i \in 1..3 : imgs[i].args[3] = 229
        /\ <<imgs[1].args[1], imgs[2].args[1], imgs[3].args[1]>>
             = << [img |-> game.sprite], [img |-> "images/char-boy.png"],
                  [img |-> "images/Heart.png"] >>

C6_Witness ==
  /\ TickCompleted
  /\ game.state = "win"
  /\ game.sprite = CharSprites[2]
  /\ game.lvl = 1

\* C7: in every state the first drawing operation of a render is the fill of
\* the rectangle 0,0,505,606 (the whole canvas) in white, and it is the only
\* fill, so all other drawing of that render comes after it.
C7_RenderStartsWithFullClear ==
  Rendered =>
    /\ Len(frame.draws) >= 1
    /\ frame.draws[1].op = "fill"
    /\ frame.draws[1].with = << <<WholeSurface>>, "white" >>
    /\ \A i \in 2..Len(frame.draws) : frame.draws[i].op # "fill"

C7_Witness ==
  /\ frame.n = 2
  /\ Rendered
  /\ game.state \in {"game", "paused"}
  /\ Len(frame.draws) \in {1, 7}

\* C8 as stated: once init has returned, the clock is >= the sample init took
\* and exactly one Update+Render pair has executed.
C8_InitTickClockNotBeforeInit ==
  (started /\ delivered = 0 /\ frame.threw = "none") =>
    /\ lastTime >= initTime
    /\ pairs = 1

\* C8 amended: init performs the first tick itself; once it has returned,
\* exactly one Update+Render pair has executed and the clock holds the sample
\* that tick took, which is >= the sample init took unless the host clock went
\* backwards between the two.
C8_InitRunsOneTick ==
  (started /\ delivered = 0 /\ frame.threw = "none") =>
    /\ pairs = 1
    /\ frame.n = 1
    /\ lastTime = frame.now
    /\ (~wentBack => lastTime >= initTime)
    /\ world.display = "block"

C8_Witness ==
  /\ started
  /\ delivered = 0
  /\ frame.threw = "none"
  /\ lastTime > initTime

\* C9: a tick that returns without error has registered exactly one callback
\* (init's first tick included), never more than one is pending, and after
\* such a tick the host can run the next one (below the bound on ticks), so
\* that under FairSpec the next tick follows.
C9_OneCallbackAndNextTick ==
  /\ pending <= 1
  /\ (TickCompleted => pending = 1 /\ frame.raf = 1)
  /\ (TickCompleted /\ frame.n < MaxTicks => ENABLED Frame)

C9_Witness ==
  /\ frame.n = MaxTicks
  /\ frame.threw = "none"
  /\ pending = 1
  /\ delivered = MaxTicks - 1

\* C10: the dt of a tick is (this tick's sample - the previous tick's sample,
\* init's for the first) / 1000; the clock holds the latest completed tick's
\* sample; the dt of the completed ticks add up to the clock minus init's
\* sample; and no dt is negative unless the host clock went backwards.
C10_DtTelescopes ==
  frame.n > 0 =>
    /\ frame.dt = [num |-> frame.now - prevNow, den |-> 1000]
    /\ (frame.threw = "none" => lastTime = frame.now)
    /\ dtSum = lastTime - initTime
    /\ (~wentBack => frame.dt.num >= 0)

C10_Witness ==
  /\ frame.n = 2
  /\ frame.threw = "none"
  /\ ~wentBack
  /\ frame.dt.num > 0
  /\ dtSum > 0

\* The progress C9 concludes, as a temporal formula of FairSpec: every tick
\* below the bound that returns without error is followed by the next tick.
NextTickFollows ==
  \A k \in 1..(MaxTicks - 1) :
    (frame.n = k /\ frame.threw = "none") ~> (frame.n = k + 1)

====
